---- MODULE Spec2Model ----
(***************************************************************************)
(* exifgeo (src/src/main.rs): GPS geotags are read from the EXIF APP1      *)
(* segment of JPEG files and written as a GPX track.                       *)
(*                                                                         *)
(* Files and the EXIF payload are byte sequences; every reader below       *)
(* decodes the bytes the way the Rust code does.  Conventions:             *)
(*   - byte offsets are zero-based as in the source, At(s, i) is s[i+1]; *)
(*   - the in-memory structs read by read_struct are laid out as on a      *)
(*     little-endian host;                                                 *)
(*   - a u64 is represented by its residue of least absolute value         *)
(*     modulo 2^64, so u64::MAX is -1 and wrapping arithmetic is integer   *)
(*     arithmetic; LessU64 is the unsigned order on the residues;          *)
(*   - an f64 quotient num/denom is kept as the exact fraction, or as Inf  *)
(*     (n/0, n > 0) or NaN (0/0); a coordinate is an integer number of     *)
(*     1e-5 degrees, which is what f64_from_ifd truncates to, with SatE5   *)
(*     standing for (u64::MAX as f64) / 100000.0;                          *)
(*   - integer overflow panics in a build with overflow checks and wraps   *)
(*     in a build without: the variable checked says which build runs.     *)
(***************************************************************************)
EXTENDS Integers, Sequences, FiniteSets, TLC

VARIABLES
    args,       \* main: the input files args[base..], as file descriptions
    checked,    \* the build has overflow checks (debug) or not (release)
    idx,        \* main: number of files taken by the for loop so far
    pc,         \* position of control
    f,          \* parse_file: the open File, [bytes, pos]
    buf,        \* handle_app1: the BufReader over the EXIF payload
    len,        \* parse_file / handle_app1: the segment length `len`
    num_entries,\* handle_app1: top-level IFD entries still to read
    gps,        \* process_gps_section: its locals
    result,     \* the Result<GpsInfo> parse_file returns
    waypoints,  \* main: Vec<GpsInfo> collected so far
    track,      \* print_xml: the filtered track handed to print_gpx
    stamp       \* print_time: the calendar fields written

vars == <<args, checked, idx, pc, f, buf, len, num_entries, gps, result,
          waypoints, track, stamp>>

----------------------------------------------------------------------------
(* Program constants.                                                      *)

SOI == 65496
SOS == 65498
APP1 == 65505
GPS == 34853
LAT_Q == 1
LAT_V == 2
LONG_Q == 3
LONG_V == 4
TIMESTAMP == 7
DATESTAMP == 29
DISTANCE_DIFF == 5
NUM_ESSENTIAL_ENTRIES == 6
ADVANCE == 6
CHAR_S == 83
CHAR_W == 87
MAX_CHAR == 1114111
TIFF_LE == 18761
FIRST_IFD == 8
IFD_ENTRY_SIZE == 12
EXIF_BODY_SIZE == 8
RATIONAL_SIZE == 24
DATE_SIZE == 10

\* u64::MAX as a residue modulo 2^64.
U64_MAX == -1
\* (u64::MAX as f64) / 100000.0 in units of 1e-5 degrees: a sentinel, larger
\* than any coordinate a finite rational triple of the model decodes to.
SatE5 == 1000000000

----------------------------------------------------------------------------
(* Bytes and integers.                                                     *)

\* s[i] with the zero-based index of the source.
At(s, i) == s[i + 1]

u16_from_le_bytes(b) == b[1] + 256 * b[2]

u16_from_be_bytes(b) == 256 * b[1] + b[2]

u32_from_le_bytes(b) == b[1] + 256 * b[2] + 65536 * b[3] + 16777216 * b[4]

Abs(x) == IF x < 0 THEN -x ELSE x

Min(a, b) == IF a < b THEN a ELSE b

\* The unsigned order of two u64 residues (u64::cmp).
LessU64(a, b) == IF (a < 0) = (b < 0) THEN a < b ELSE b < 0

\* a + b in u64 overflows: the unsigned values sum to 2^64 or more.
AddOverflowsU64(a, b) ==
    IF a >= 0 /\ b >= 0 THEN FALSE
    ELSE IF a < 0 /\ b < 0 THEN TRUE
    ELSE a + b >= 0

----------------------------------------------------------------------------
(* Results.                                                                *)

NoWaypoint == [lat |-> 0, lon |-> 0, time |-> 0]

Ok(wp) == [kind |-> "Ok", wp |-> wp]

Err(kind) == [kind |-> kind, wp |-> NoWaypoint]

Panic == [kind |-> "Panic", wp |-> NoWaypoint]

NoResult == [kind |-> "None", wp |-> NoWaypoint]

----------------------------------------------------------------------------
(* BufReader.                                                              *)

BufReader_new == [cursor_stack |-> <<>>, cursor |-> 0, buffer |-> <<>>]

set_cursor(b, new_cursor) ==
    IF new_cursor >= Len(b.buffer)
    THEN [err |-> "UnexpectedEof", buf |-> b]
    ELSE [err |-> "", buf |-> [b EXCEPT !.cursor = new_cursor]]

save_cursor(b) == [b EXCEPT !.cursor_stack = Append(@, b.cursor)]

restore_cursor(b) ==
    [b EXCEPT !.cursor = b.cursor_stack[Len(b.cursor_stack)],
              !.cursor_stack = SubSeq(@, 1, Len(@) - 1)]

read(b, n) ==
    IF b.cursor + n > Len(b.buffer)
    THEN [err |-> "UnexpectedEof", buf |-> b, bytes |-> <<>>]
    ELSE [err |-> "",
          buf |-> [b EXCEPT !.cursor = @ + n],
          bytes |-> SubSeq(b.buffer, b.cursor + 1, b.cursor + n)]

read_u16(b) ==
    LET r == read(b, 2)
    IN  [err |-> r.err, buf |-> r.buf,
         val |-> IF r.err = "" THEN u16_from_le_bytes(r.bytes) ELSE 0]

\* read_struct::<IfdEntry>: twelve bytes reinterpreted as the packed struct.
read_ifd_entry(b) ==
    LET r == read(b, IFD_ENTRY_SIZE)
    IN  [err |-> r.err, buf |-> r.buf,
         entry |-> IF r.err # "" THEN [tag |-> 0, typ_e |-> 0, count |-> 0, offset |-> 0]
                   ELSE [tag |-> u16_from_le_bytes(SubSeq(r.bytes, 1, 2)),
                         typ_e |-> u16_from_le_bytes(SubSeq(r.bytes, 3, 4)),
                         count |-> u32_from_le_bytes(SubSeq(r.bytes, 5, 8)),
                         offset |-> u32_from_le_bytes(SubSeq(r.bytes, 9, 12))]]

\* read_struct::<ExifBody>: eight bytes reinterpreted as the packed struct.
read_exif_body(b) ==
    LET r == read(b, EXIF_BODY_SIZE)
    IN  [err |-> r.err, buf |-> r.buf,
         eb |-> IF r.err # "" THEN [tiff |-> 0, size |-> 0, offset |-> 0]
                ELSE [tiff |-> u16_from_le_bytes(SubSeq(r.bytes, 1, 2)),
                      size |-> u16_from_le_bytes(SubSeq(r.bytes, 3, 4)),
                      offset |-> u32_from_le_bytes(SubSeq(r.bytes, 5, 8))]]

is_valid(eb) == eb.tiff = TIFF_LE /\ eb.offset = FIRST_IFD

----------------------------------------------------------------------------
(* Rationals.                                                              *)

Fin(n, d) == [cls |-> "fin", n |-> n, d |-> d]

Inf == [cls |-> "inf", n |-> 1, d |-> 0]

NaN == [cls |-> "nan", n |-> 0, d |-> 0]

\* num as f64 / denom as f64
Quotient(num, denom) ==
    IF denom # 0 THEN Fin(num, denom)
    ELSE IF num = 0 THEN NaN ELSE Inf

floats_from_rational(b, offset) ==
    LET saved == save_cursor(b)
        s == set_cursor(saved, offset)
        r == read(s.buf, RATIONAL_SIZE)
        num(i) == u32_from_le_bytes(SubSeq(r.bytes, 8 * i + 1, 8 * i + 4))
        denom(i) == u32_from_le_bytes(SubSeq(r.bytes, 8 * i + 5, 8 * i + 8))
    IN  IF s.err # "" THEN [err |-> s.err, buf |-> s.buf, floats |-> <<>>]
        ELSE IF r.err # "" THEN [err |-> r.err, buf |-> r.buf, floats |-> <<>>]
        ELSE [err |-> "",
              buf |-> restore_cursor(r.buf),
              floats |-> [i \in 1..3 |-> Quotient(num(i - 1), denom(i - 1))]]

AnyNaN(fl) == \E i \in 1..3 : fl[i].cls = "nan"

AnyInf(fl) == \E i \in 1..3 : fl[i].cls = "inf"

\* floor(a * b / c) for a < c, keeping the intermediate products small.
MulDivSmall(a, b1, b2, c) ==
    LET p == a * b1
        q == p \div c
        r == p % c
    IN  q * b2 + (r * b2) \div c

\* ((floats[0] + (floats[1] * 60.0 + floats[2]) / 3600.0) * 100000.0) as u64,
\* for three finite fractions; the result is in units of 1e-5 degrees.
DegreesE5(fl) ==
    LET den == 3600 * fl[1].d * fl[2].d * fl[3].d
        numr == 3600 * fl[1].n * fl[2].d * fl[3].d
                + 60 * fl[2].n * fl[1].d * fl[3].d
                + fl[3].n * fl[1].d * fl[2].d
    IN  (numr \div den) * 100000 + MulDivSmall(numr % den, 1000, 100, den)

\* A float-to-u64 cast saturates: NaN is 0, +inf is u64::MAX.
f64_from_ifd(b, offset) ==
    LET r == floats_from_rational(b, offset)
    IN  [err |-> r.err, buf |-> r.buf,
         val |-> IF r.err # "" THEN 0
                 ELSE IF AnyNaN(r.floats) THEN 0
                 ELSE IF AnyInf(r.floats) THEN SatE5
                 ELSE DegreesE5(r.floats)]

\* (floats[0] * 3600.0 + floats[1] * 60.0 + floats[2]) as u64
SecondsOfDay(fl) ==
    IF AnyNaN(fl) THEN 0
    ELSE IF AnyInf(fl) THEN U64_MAX
    ELSE (3600 * fl[1].n * fl[2].d * fl[3].d
          + 60 * fl[2].n * fl[1].d * fl[3].d
          + fl[3].n * fl[1].d * fl[2].d) \div (fl[1].d * fl[2].d * fl[3].d)

----------------------------------------------------------------------------
(* GpsInfo.                                                                *)

IsDigit(c) == c \in 48..57

RECURSIVE DecimalValue(_)
DecimalValue(digits) ==
    IF digits = <<>> THEN 0
    ELSE 10 * DecimalValue(SubSeq(digits, 1, Len(digits) - 1))
         + (digits[Len(digits)] - 48)

\* str::from_utf8 followed by str::parse::<u64>: decimal digits, which one
\* leading '+' may precede; anything else is InvalidData.
get_num(bytes) ==
    LET digits == IF bytes # <<>> /\ bytes[1] = 43 THEN Tail(bytes) ELSE bytes
    IN  IF digits # <<>> /\ \A i \in 1..Len(digits) : IsDigit(digits[i])
        THEN [err |-> "", val |-> DecimalValue(digits)]
        ELSE [err |-> "InvalidData", val |-> 0]

\* An arithmetic overflow: a panic with overflow checks, a wrapped value
\* without.
OnOverflow(overflowed) == IF overflowed /\ checked THEN "Panic" ELSE ""

process_timestamp(wp, b, offset) ==
    LET r == floats_from_rational(b, offset)
        secs == SecondsOfDay(r.floats)
    IN  IF r.err # "" THEN [err |-> r.err, buf |-> r.buf, wp |-> wp]
        ELSE [err |-> OnOverflow(AddOverflowsU64(wp.time, secs)),
              buf |-> r.buf,
              wp |-> [wp EXCEPT !.time = @ + secs]]

process_datestamp(wp, b, offset) ==
    LET saved == save_cursor(b)
        s == set_cursor(saved, offset)
        r == read(s.buf, DATE_SIZE)
        restored == restore_cursor(r.buf)
        year == get_num(SubSeq(r.bytes, 1, 4))
        month == get_num(SubSeq(r.bytes, 6, 7))
        day == get_num(SubSeq(r.bytes, 9, 10))
        years == year.val * 31 * 12 * 24 * 60 * 60
        months == (month.val - 1) * 31 * 24 * 60 * 60
        days == (day.val - 1) * 24 * 60 * 60
        t1 == wp.time + years
        t2 == t1 + months
        t3 == t2 + days
        overflowed == \/ AddOverflowsU64(wp.time, years)
                      \/ month.val = 0
                      \/ AddOverflowsU64(t1, months)
                      \/ day.val = 0
                      \/ AddOverflowsU64(t2, days)
    IN  IF s.err # "" THEN [err |-> s.err, buf |-> s.buf, wp |-> wp]
        ELSE IF r.err # "" THEN [err |-> r.err, buf |-> r.buf, wp |-> wp]
        ELSE IF year.err # "" THEN [err |-> year.err, buf |-> restored, wp |-> wp]
        ELSE IF month.err # "" THEN [err |-> month.err, buf |-> restored, wp |-> wp]
        ELSE IF day.err # "" THEN [err |-> day.err, buf |-> restored, wp |-> wp]
        ELSE [err |-> OnOverflow(overflowed),
              buf |-> restored,
              wp |-> [wp EXCEPT !.time = t3]]

\* distance_from reads the coordinates in units of 1e-5 degrees,
\* MilliMetresPerE5 / 1000 metres of a great circle each.  For two points
\* less than NearE5 units apart on both axes (and within a few degrees of
\* the equator, where cos(lat) is 1 to four digits) the haversine distance
\* is the planar one, truncated to whole metres by `as u32`; for points
\* farther apart the result is cut to the metres of NearE5 units, which is
\* above DISTANCE_DIFF, the one value the result is compared with.
MilliMetresPerE5 == 1112
NearE5 == 10

RECURSIVE FloorMetres(_, _)
FloorMetres(sq, m) ==
    IF (m + 1) * (m + 1) * 1000000 > MilliMetresPerE5 * MilliMetresPerE5 * sq
    THEN m
    ELSE FloorMetres(sq, m + 1)

distance_from(self, other) ==
    LET dlat == Abs(self.lat - other.lat)
        dlon == Abs(self.lon - other.lon)
    IN  IF dlat >= NearE5 \/ dlon >= NearE5
        THEN (MilliMetresPerE5 * NearE5) \div 1000
        ELSE FloorMetres(dlat * dlat + dlon * dlon, 0)

----------------------------------------------------------------------------
(* GPX output.                                                             *)

\* A decoder that takes months of 30 days.
print_time_30(time) ==
    LET run3 == ((time \div 60) \div 60) \div 24
    IN  [year |-> (run3 \div 30) \div 12, month |-> ((run3 \div 30) % 12) + 1,
         day |-> (run3 % 30) + 1, hour |-> ((time \div 60) \div 60) % 24,
         min |-> (time \div 60) % 60, sec |-> time % 60]

\* print_time: the calendar fields of a composite time below 2^63.
print_time(time) ==
    LET sec == time % 60
        run1 == time \div 60
        min == run1 % 60
        run2 == run1 \div 60
        hour == run2 % 24
        run3 == run2 \div 24
        day == (run3 % 31) + 1
        run4 == run3 \div 31
        month == (run4 % 12) + 1
        year == run4 \div 12
    IN  [year |-> year, month |-> month, day |-> day,
         hour |-> hour, min |-> min, sec |-> sec]

\* A sort that is not stable: x goes in front of the elements equal to it.
RECURSIVE InsertByTimeUnstable(_, _)
InsertByTimeUnstable(sorted, x) ==
    IF sorted = <<>> THEN <<x>>
    ELSE IF ~LessU64(sorted[Len(sorted)].time, x.time)
         THEN Append(InsertByTimeUnstable(SubSeq(sorted, 1, Len(sorted) - 1), x),
                     sorted[Len(sorted)])
         ELSE Append(sorted, x)

\* wp.sort_by(|a, b| a.time.cmp(&b.time)): a stable sort.  x goes behind
\* every element that is not greater than it.
RECURSIVE InsertByTime(_, _)
InsertByTime(sorted, x) ==
    IF sorted = <<>> THEN <<x>>
    ELSE IF LessU64(x.time, sorted[Len(sorted)].time)
         THEN Append(InsertByTime(SubSeq(sorted, 1, Len(sorted) - 1), x),
                     sorted[Len(sorted)])
         ELSE Append(sorted, x)

RECURSIVE sort_by_time(_)
sort_by_time(w) ==
    IF w = <<>> THEN <<>>
    ELSE InsertByTime(sort_by_time(SubSeq(w, 1, Len(w) - 1)), w[Len(w)])

\* A filter that keeps a waypoint at the threshold distance.
is_kept_at_threshold(wp, i) ==
    distance_from(At(wp, i), At(wp, i - 1)) >= DISTANCE_DIFF

\* The test of the filter loop for wp[i], i >= 1 (zero-based).
is_kept(wp, i) == distance_from(At(wp, i), At(wp, i - 1)) > DISTANCE_DIFF

RECURSIVE filter_from(_, _, _)
filter_from(wp, i, filtered) ==
    IF i >= Len(wp) THEN filtered
    ELSE filter_from(wp, i + 1,
                     IF is_kept(wp, i) THEN Append(filtered, At(wp, i))
                     ELSE filtered)

\* print_xml, for a nonempty waypoints: the sequence handed to print_gpx,
\* which writes one <trkpt> per element in this order.
print_xml(w) ==
    LET wp == sort_by_time(w)
    IN  filter_from(wp, 1, <<At(wp, 0)>>)

----------------------------------------------------------------------------
(* Input files.  A file is described by a record and laid out as bytes by  *)
(* FileBytes; the program only ever sees the bytes.                        *)

le16(v) == <<v % 256, v \div 256>>

be16(v) == <<v \div 256, v % 256>>

le32(v) == <<v % 256, (v \div 256) % 256, (v \div 65536) % 256, v \div 16777216>>

RECURSIVE Flatten(_)
Flatten(ss) == IF ss = <<>> THEN <<>> ELSE ss[1] \o Flatten(Tail(ss))

\* Offsets of the parts of the EXIF payload of description d.
GpsOffset(d) == 10 + IFD_ENTRY_SIZE * Len(d.ifd0) + 4

LatOffset(d) == GpsOffset(d) + 2 + IFD_ENTRY_SIZE * Len(d.gps) + 4

LonOffset(d) == LatOffset(d) + RATIONAL_SIZE

TimeOffset(d) == LonOffset(d) + RATIONAL_SIZE

DateOffset(d) == TimeOffset(d) + RATIONAL_SIZE

PayloadSize(d) == DateOffset(d) + DATE_SIZE + 1

\* The 32-bit value field of an entry: an inline value, or the offset of a
\* part of the payload, or an offset at ("end") or just before ("tail") the
\* end of the payload.
EntryValue(d, e) ==
    CASE e.ref = "val" -> e.val
      [] e.ref = "gps" -> GpsOffset(d)
      [] e.ref = "lat" -> LatOffset(d)
      [] e.ref = "lon" -> LonOffset(d)
      [] e.ref = "time" -> TimeOffset(d)
      [] e.ref = "date" -> DateOffset(d)
      [] e.ref = "end" -> PayloadSize(d)
      [] e.ref = "tail" -> PayloadSize(d) - 4

EntryBytes(d, e) == le16(e.tag) \o le16(e.typ) \o le32(1) \o le32(EntryValue(d, e))

RationalBytes(t) == Flatten([i \in 1..3 |-> le32(t[i][1]) \o le32(t[i][2])])

Payload(d) ==
    le16(d.tiff) \o le16(42) \o le32(d.ifd_off)
    \o le16(Len(d.ifd0)) \o Flatten([i \in 1..Len(d.ifd0) |-> EntryBytes(d, d.ifd0[i])])
    \o le32(0)
    \o le16(Len(d.gps)) \o Flatten([i \in 1..Len(d.gps) |-> EntryBytes(d, d.gps[i])])
    \o le32(0)
    \o RationalBytes(d.lat) \o RationalBytes(d.lon) \o RationalBytes(d.time)
    \o d.date \o <<0>>

ExifId == <<69, 120, 105, 102, 0, 0>>

App0Segment == <<255, 224>> \o be16(4) \o <<74, 70>>

App1Segment(d) == be16(APP1) \o be16(2 + Len(ExifId) + PayloadSize(d)) \o ExifId \o Payload(d)

FileBytes(d) ==
    CASE d.shape = "empty" -> <<>>
      [] d.shape = "notjpeg" -> <<137, 80, 78, 71>>
      [] d.shape = "soi_eof" -> be16(SOI)
      [] d.shape = "soi_sos" -> be16(SOI) \o be16(SOS)
      [] d.shape = "app0_sos" -> be16(SOI) \o App0Segment \o be16(SOS)
      [] d.shape = "app0_eof" -> be16(SOI) \o App0Segment
      [] d.shape = "shortseg" ->
            be16(SOI) \o <<255, 224>> \o be16(d.seglen) \o App1Segment(d) \o be16(SOS)
      [] d.shape = "app1_short" ->
            be16(SOI) \o be16(APP1) \o be16(d.seglen) \o ExifId \o Payload(d) \o be16(SOS)
      [] d.shape = "app1_trunc" ->
            be16(SOI) \o be16(APP1) \o be16(d.seglen) \o ExifId
      [] d.shape = "app0_app1" -> be16(SOI) \o App0Segment \o App1Segment(d) \o be16(SOS)
      [] d.shape = "app1" -> be16(SOI) \o App1Segment(d) \o be16(SOS)

\* GPS IFD entries of a description.
Quadrant(tag, ch) == [tag |-> tag, typ |-> 2, ref |-> "val", val |-> ch]

Pointer(tag, typ, ref) == [tag |-> tag, typ |-> typ, ref |-> ref, val |-> 0]

LatQ(ch) == Quadrant(LAT_Q, ch)

LongQ(ch) == Quadrant(LONG_Q, ch)

LatV == Pointer(LAT_V, 5, "lat")

LongV == Pointer(LONG_V, 5, "lon")

TimeStamp == Pointer(TIMESTAMP, 5, "time")

DateStamp == Pointer(DATESTAMP, 2, "date")

\* GPSAltitudeRef, a tag the decoder does not know.
OtherTag == [tag |-> 5, typ |-> 1, ref |-> "val", val |-> 0]

\* Character codes of the inputs: N S E W, X (a letter that is no quadrant),
\* a surrogate (no Unicode scalar value, char::from_u32 is None), ':' and 'x'.
Ascii == [N |-> 78, S |-> 83, E |-> 69, W |-> 87, X |-> 88,
          surrogate |-> 55296, colon |-> 58, x |-> 120, plus |-> 43]

Digits(v, n) == [i \in 1..n |-> 48 + ((v \div (10 ^ (n - i))) % 10)]

DateBytes(y, m, dd) == Digits(y, 4) \o <<Ascii.colon>> \o Digits(m, 2) \o <<Ascii.colon>> \o Digits(dd, 2)

Whole(a, b, c) == <<<<a, 1>>, <<b, 1>>, <<c, 1>>>>

BaseGps == <<LatQ(Ascii.N), LatV, LongQ(Ascii.E), LongV, TimeStamp, DateStamp>>

Base ==
    [shape |-> "app1", seglen |-> 0, tiff |-> TIFF_LE, ifd_off |-> FIRST_IFD,
     ifd0 |-> <<[tag |-> 271, typ |-> 2, ref |-> "val", val |-> 0],
                [tag |-> GPS, typ |-> 4, ref |-> "gps", val |-> 0]>>,
     gps |-> BaseGps,
     lat |-> Whole(1, 30, 0), lon |-> Whole(2, 0, 0), time |-> Whole(1, 2, 3),
     date |-> DateBytes(1, 2, 3)]


\* Every order of the six essential entries, with every pair of quadrants.
Permutations6 == {p \in [1..6 -> 1..6] : \A i, j \in 1..6 : p[i] = p[j] => i = j}

GpsWith(latq, longq) == <<LatQ(latq), LatV, LongQ(longq), LongV, TimeStamp, DateStamp>>

InputsOrder ==
    {[Base EXCEPT !.gps = [i \in 1..6 |-> GpsWith(q[1], q[2])[p[i]]]] :
        p \in Permutations6,
        q \in {Ascii.N, Ascii.S} \X {Ascii.E, Ascii.W}}

Remove(seq, i) == SubSeq(seq, 1, i - 1) \o SubSeq(seq, i + 1, Len(seq))

\* GPS IFDs with entries missing, repeated, replaced or added.
InputsTags ==
    {[Base EXCEPT !.gps = g] : g \in
        {Remove(BaseGps, i) : i \in 1..6}
        \cup {[BaseGps EXCEPT ![i] = BaseGps[j]] : i, j \in 1..6}
        \cup {[BaseGps EXCEPT ![i] = OtherTag] : i \in 1..6}
        \cup {Append(BaseGps, e) : e \in {OtherTag, LatQ(Ascii.S), DateStamp}}
        \cup {<<OtherTag>> \o BaseGps, <<>>, <<OtherTag>>}}

ZeroDenominators == {<<0, 0>>, <<1, 0>>}

DateFirstGps == <<DateStamp, TimeStamp, LatQ(Ascii.N), LatV, LongQ(Ascii.E), LongV>>

BadPointers ==
    {[BaseGps EXCEPT ![i].ref = r] : i \in {2, 4, 5, 6}, r \in {"end", "tail"}}

BadQuadrants ==
    {[BaseGps EXCEPT ![i].val = c] : i \in {1, 3}, c \in {Ascii.X, Ascii.surrogate}}

BadDates ==
    {[DateBytes(1, 2, 3) EXCEPT ![i] = c] : i \in {2, 6, 10}, c \in {Ascii.x}}
    \cup {[DateBytes(1, 2, 3) EXCEPT ![1] = Ascii.plus],
          DateBytes(1, 0, 3), DateBytes(1, 2, 0), DateBytes(0, 1, 1)}

\* Rationals with a zero denominator or a fraction, offsets that leave the
\* payload, quadrants that are no quadrant, dates that are no date.
InputsValues ==
    {[Base EXCEPT !.lat[i] = z] : i \in 1..3, z \in ZeroDenominators}
    \cup {[Base EXCEPT !.lon[i] = z] : i \in 1..3, z \in ZeroDenominators}
    \cup {[Base EXCEPT !.time[i] = z, !.gps = g] :
            i \in 1..3, z \in ZeroDenominators, g \in {BaseGps, DateFirstGps}}
    \cup {[Base EXCEPT !.lat = <<<<1, 1>>, <<61, 2>>, <<11, 100>>>>]}
    \cup {[Base EXCEPT !.gps = g] : g \in BadPointers \cup BadQuadrants}
    \cup {[Base EXCEPT !.date = dt] : dt \in BadDates}

\* Files that are no JPEG, end early, hold no APP1, declare a segment length
\* too small, or hold an EXIF payload without a usable GPS directory.
InputsFile ==
    {[Base EXCEPT !.shape = sh] : sh \in
        {"empty", "notjpeg", "soi_eof", "soi_sos", "app0_sos", "app0_eof", "app0_app1"}}
    \cup {[Base EXCEPT !.shape = "shortseg", !.seglen = n] : n \in {0, 1}}
    \cup {[Base EXCEPT !.shape = "app1_short", !.seglen = n] : n \in {0, 1, 2, 7}}
    \cup {[Base EXCEPT !.shape = "app1_trunc", !.seglen = n] : n \in {8, 100}}
    \cup {[Base EXCEPT !.tiff = 19789], [Base EXCEPT !.ifd_off = 16]}
    \cup {[Base EXCEPT !.ifd0 = i0] : i0 \in
            {<<>>, <<Base.ifd0[1]>>, <<Base.ifd0[2]>>,
             <<Base.ifd0[1], [Base.ifd0[2] EXCEPT !.ref = "end"]>>}}

Inputs == InputsOrder \cup InputsTags \cup InputsValues \cup InputsFile

\* The files of the batches of more than one file.
Near == [Base EXCEPT !.lat = <<<<1, 1>>, <<30, 1>>, <<11, 100>>>>, !.time = Whole(1, 2, 4)]

FarEarlier == [Base EXCEPT !.lat = Whole(2, 0, 0), !.date = DateBytes(1, 1, 1)]

BatchInputs ==
    {Base, Near, FarEarlier,
     [Base EXCEPT !.shape = "notjpeg"],
     [Base EXCEPT !.date[2] = Ascii.x],
     [Base EXCEPT !.lat[1] = <<0, 0>>]}

\* Number of files of the longest batch.
MaxFiles == 2

RECURSIVE SeqsOfLen(_, _)
SeqsOfLen(S, n) ==
    IF n = 0 THEN {<<>>}
    ELSE {Append(q, x) : q \in SeqsOfLen(S, n - 1), x \in S}

Batches ==
    {<<d>> : d \in Inputs} \cup UNION {SeqsOfLen(BatchInputs, n) : n \in 2..MaxFiles}

----------------------------------------------------------------------------
(* std::fs::File.  A read returns the bytes left, at most as many as asked *)
(* for, and none at or past the end.  A seek past the end succeeds up to   *)
(* the largest offset the system takes (i64::MAX at most, here MaxOffset); *)
(* beyond it the seek fails with InvalidInput.                             *)

NoFile == [bytes |-> <<>>, pos |-> 0]

\* The largest file offset; above every file length and three seeks of a
\* wrapped segment length.
MaxOffset == 200000

\* The zeroed tag buffer keeps its zeros where the read gave no byte.
read_tag(file) ==
    LET left == Len(file.bytes) - file.pos
        n == IF left < 0 THEN 0 ELSE Min(2, left)
        tag == [i \in 1..2 |-> IF i <= n THEN file.bytes[file.pos + i] ELSE 0]
    IN  [f |-> [file EXCEPT !.pos = @ + n], val |-> u16_from_be_bytes(tag)]

\* f.seek(SeekFrom::Current(n))
seek_current(file, n) ==
    IF file.pos + n > MaxOffset
    THEN [err |-> "InvalidInput", f |-> file]
    ELSE [err |-> "", f |-> [file EXCEPT !.pos = @ + n]]

\* BufReader::init: vec![0u8; size] filled by read_exact.
init(file, size) ==
    IF file.pos + size > Len(file.bytes)
    THEN [err |-> "UnexpectedEof", f |-> file, buf |-> BufReader_new]
    ELSE [err |-> "",
          f |-> [file EXCEPT !.pos = @ + size],
          buf |-> [BufReader_new EXCEPT
                      !.buffer = SubSeq(file.bytes, file.pos + 1, file.pos + size)]]

\* a - b on u16: the wrapped difference, and whether it overflowed.
SubU16(a, b) == [val |-> IF a < b THEN a - b + 65536 ELSE a - b, overflowed |-> a < b]

----------------------------------------------------------------------------
(* process_gps_section.                                                    *)

GpsIdle ==
    [entered |-> FALSE, num_entries |-> 0, i |-> 0, essentials |-> 0,
     waypoint |-> NoWaypoint, lat_sign |-> 1, lon_sign |-> 1]

\* char::from_u32 is Some.
is_char(v) == v <= MAX_CHAR /\ ~(v \in 55296..57343)

\* The sign applied where the value is stored as well as after the loop.
store_lat_signed(g, val) == [g EXCEPT !.waypoint.lat = val * g.lat_sign]

\* LAT_V => waypoint.lat = ...: the value is stored unsigned.
store_lat(g, val) == [g EXCEPT !.waypoint.lat = val]

\* LONG_V => waypoint.lon = ...
store_lon(g, val) == [g EXCEPT !.waypoint.lon = val]

\* The body of the entry loop for one entry read.
gps_entry(g, b, entry) ==
    LET counted == [g EXCEPT !.essentials = @ + 1]
        next(x) == [x EXCEPT !.i = @ + 1]
        out(e, bb, gg) == [err |-> e, buf |-> bb, gps |-> gg]
    IN  CASE entry.tag = LAT_Q ->
                IF ~is_char(entry.offset) THEN out("Panic", b, counted)
                ELSE out("", b, next([counted EXCEPT
                        !.lat_sign = IF entry.offset = CHAR_S THEN -1 ELSE 1]))
          [] entry.tag = LONG_Q ->
                IF ~is_char(entry.offset) THEN out("Panic", b, counted)
                ELSE out("", b, next([counted EXCEPT
                        !.lon_sign = IF entry.offset = CHAR_W THEN -1 ELSE 1]))
          [] entry.tag = LAT_V ->
                LET r == f64_from_ifd(b, entry.offset)
                IN  IF r.err # "" THEN out(r.err, r.buf, counted)
                    ELSE out("", r.buf, next(store_lat(counted, r.val)))
          [] entry.tag = LONG_V ->
                LET r == f64_from_ifd(b, entry.offset)
                IN  IF r.err # "" THEN out(r.err, r.buf, counted)
                    ELSE out("", r.buf, next(store_lon(counted, r.val)))
          [] entry.tag = TIMESTAMP ->
                LET r == process_timestamp(g.waypoint, b, entry.offset)
                IN  IF r.err # "" THEN out(r.err, r.buf, counted)
                    ELSE out("", r.buf, next([counted EXCEPT !.waypoint = r.wp]))
          [] entry.tag = DATESTAMP ->
                LET r == process_datestamp(g.waypoint, b, entry.offset)
                IN  IF r.err # "" THEN out(r.err, r.buf, counted)
                    ELSE out("", r.buf, next([counted EXCEPT !.waypoint = r.wp]))
          [] OTHER -> out("", b, next(g))

\* A completeness test that takes six or more entries.
gps_finish_at_least(g) ==
    IF g.essentials >= NUM_ESSENTIAL_ENTRIES
    THEN Ok([g.waypoint EXCEPT !.lat = @ * g.lat_sign, !.lon = @ * g.lon_sign])
    ELSE Err("Other")

\* After the loop: the waypoint with its signs, or the non-fatal failure.
gps_finish(g) ==
    IF g.essentials = NUM_ESSENTIAL_ENTRIES
    THEN Ok([g.waypoint EXCEPT !.lat = @ * g.lat_sign, !.lon = @ * g.lon_sign])
    ELSE Err("Other")

----------------------------------------------------------------------------
(* The program.                                                            *)

NoStamp == [year |-> 0, month |-> 0, day |-> 0, hour |-> 0, min |-> 0, sec |-> 0]

Init ==
    /\ args \in Batches
    /\ checked \in BOOLEAN
    /\ idx = 0
    /\ pc = "loop"
    /\ f = NoFile
    /\ buf = BufReader_new
    /\ len = 0
    /\ num_entries = 0
    /\ gps = GpsIdle
    /\ result = NoResult
    /\ waypoints = <<>>
    /\ track = <<>>
    /\ stamp = NoStamp

\* A function returns Err(kind) to main, or the process panics.
Fails(kind) ==
    /\ result' = IF kind = "Panic" THEN Panic ELSE Err(kind)
    /\ pc' = IF kind = "Panic" THEN "aborted" ELSE "match"

\* main: the for loop takes the next file and calls parse_file, which opens it.
MainNextFile ==
    /\ pc = "loop"
    /\ idx < Len(args)
    /\ idx' = idx + 1
    /\ f' = [bytes |-> FileBytes(args[idx + 1]), pos |-> 0]
    /\ pc' = "open"
    /\ UNCHANGED <<args, checked, buf, len, num_entries, gps, result, waypoints,
                   track, stamp>>

\* parse_file up to the marker loop: the first tag is SOI or the file is no photo.
ParseOpen ==
    /\ pc = "open"
    /\ LET t == read_tag(f)
       IN  /\ f' = t.f
           /\ IF t.val = SOI
              THEN pc' = "scan" /\ UNCHANGED result
              ELSE Fails("Other")
    /\ UNCHANGED <<args, checked, idx, buf, len, num_entries, gps, waypoints,
                   track, stamp>>

\* parse_file: one turn of the marker loop.
ScanSegment ==
    /\ pc = "scan"
    /\ LET t == read_tag(f)
           l == read_tag(t.f)
           length == SubU16(l.val, 2)
       IN  IF t.val = SOS
           THEN /\ f' = t.f
                /\ Fails("Other")
                /\ UNCHANGED len
           ELSE IF length.overflowed /\ checked
           THEN /\ f' = l.f
                /\ Fails("Panic")
                /\ UNCHANGED len
           ELSE IF t.val = APP1
           THEN /\ f' = l.f
                /\ len' = length.val
                /\ pc' = "app1"
                /\ UNCHANGED result
           ELSE LET sk == seek_current(l.f, length.val)
                IN  /\ f' = sk.f
                    /\ UNCHANGED len
                    /\ IF sk.err # "" THEN Fails(sk.err)
                       ELSE pc' = "scan" /\ UNCHANGED result
    /\ UNCHANGED <<args, checked, idx, buf, num_entries, gps, waypoints, track, stamp>>

\* handle_app1 up to the loop over the top-level IFD.
HandleApp1 ==
    /\ pc = "app1"
    /\ LET sk == seek_current(f, ADVANCE)
           size == SubU16(len, ADVANCE)
           filled == init(sk.f, size.val)
           eb == read_exif_body(filled.buf)
           n == read_u16(eb.buf)
       IN  IF sk.err # ""
           THEN /\ f' = sk.f
                /\ Fails(sk.err)
                /\ UNCHANGED <<buf, num_entries>>
           ELSE IF size.overflowed /\ checked
           THEN /\ f' = sk.f
                /\ Fails("Panic")
                /\ UNCHANGED <<buf, num_entries>>
           ELSE IF filled.err # ""
           THEN /\ f' = filled.f
                /\ Fails(filled.err)
                /\ UNCHANGED <<buf, num_entries>>
           ELSE IF eb.err # ""
           THEN /\ f' = filled.f
                /\ buf' = eb.buf
                /\ Fails(eb.err)
                /\ UNCHANGED num_entries
           ELSE IF ~is_valid(eb.eb)
           THEN /\ f' = filled.f
                /\ buf' = eb.buf
                /\ Fails("Other")
                /\ UNCHANGED num_entries
           ELSE IF n.err # ""
           THEN /\ f' = filled.f
                /\ buf' = n.buf
                /\ Fails(n.err)
                /\ UNCHANGED num_entries
           ELSE /\ f' = filled.f
                /\ buf' = n.buf
                /\ num_entries' = n.val
                /\ pc' = "ifd0"
                /\ UNCHANGED result
    /\ UNCHANGED <<args, checked, idx, len, gps, waypoints, track, stamp>>

\* handle_app1: one turn of the loop over the top-level IFD; at the GPS
\* entry the cursor moves to the GPS IFD and process_gps_section is called.
Ifd0Entry ==
    /\ pc = "ifd0"
    /\ LET r == read_ifd_entry(buf)
           s == set_cursor(r.buf, r.entry.offset)
       IN  IF num_entries = 0
           THEN /\ Fails("Other")
                /\ UNCHANGED <<buf, num_entries>>
           ELSE IF r.err # ""
           THEN /\ buf' = r.buf
                /\ Fails(r.err)
                /\ UNCHANGED num_entries
           ELSE IF r.entry.tag # GPS
           THEN /\ buf' = r.buf
                /\ num_entries' = num_entries - 1
                /\ UNCHANGED <<pc, result>>
           ELSE IF s.err # ""
           THEN /\ buf' = s.buf
                /\ Fails(s.err)
                /\ UNCHANGED num_entries
           ELSE /\ buf' = s.buf
                /\ pc' = "gps_begin"
                /\ UNCHANGED <<num_entries, result>>
    /\ UNCHANGED <<args, checked, idx, f, len, gps, waypoints, track, stamp>>

\* process_gps_section: the entry count and the locals.
GpsBegin ==
    /\ pc = "gps_begin"
    /\ LET n == read_u16(buf)
       IN  /\ buf' = n.buf
           /\ IF n.err # ""
              THEN Fails(n.err) /\ UNCHANGED gps
              ELSE /\ gps' = [GpsIdle EXCEPT !.entered = TRUE, !.num_entries = n.val]
                   /\ pc' = "gps"
                   /\ UNCHANGED result
    /\ UNCHANGED <<args, checked, idx, f, len, num_entries, waypoints, track, stamp>>

\* process_gps_section: one turn of the entry loop.
GpsEntry ==
    /\ pc = "gps"
    /\ gps.i < gps.num_entries
    /\ LET r == read_ifd_entry(buf)
           e == gps_entry(gps, r.buf, r.entry)
       IN  IF r.err # ""
           THEN /\ buf' = r.buf
                /\ Fails(r.err)
                /\ UNCHANGED gps
           ELSE /\ buf' = e.buf
                /\ gps' = e.gps
                /\ IF e.err # "" THEN Fails(e.err) ELSE UNCHANGED <<pc, result>>
    /\ UNCHANGED <<args, checked, idx, f, len, num_entries, waypoints, track, stamp>>

\* process_gps_section: after the loop.
GpsFinish ==
    /\ pc = "gps"
    /\ gps.i >= gps.num_entries
    /\ result' = gps_finish(gps)
    /\ pc' = "match"
    /\ UNCHANGED <<args, checked, idx, f, buf, len, num_entries, gps, waypoints,
                   track, stamp>>

\* main: the match on parse_file's result.  A failure of a kind other than
\* Other is returned from main; otherwise the file, the reader and the
\* locals of the call are gone and the loop goes on.
MainMatch ==
    /\ pc = "match"
    /\ IF result.kind \notin {"Ok", "Other"}
       THEN /\ pc' = "aborted"
            /\ UNCHANGED <<f, buf, len, num_entries, gps, result, waypoints>>
       ELSE /\ waypoints' = IF result.kind = "Ok" THEN Append(waypoints, result.wp)
                            ELSE waypoints
            /\ pc' = "loop"
            /\ f' = NoFile
            /\ buf' = BufReader_new
            /\ len' = 0
            /\ num_entries' = 0
            /\ gps' = GpsIdle
            /\ result' = NoResult
    /\ UNCHANGED <<args, checked, idx, track, stamp>>

\* main after the loop: nothing to write, or print_xml.
MainFinish ==
    /\ pc = "loop"
    /\ idx = Len(args)
    /\ track' = IF waypoints = <<>> THEN <<>> ELSE print_xml(waypoints)
    /\ pc' = "done"
    /\ UNCHANGED <<args, checked, idx, f, buf, len, num_entries, gps, result,
                   waypoints, stamp>>

Next ==
    \/ MainNextFile
    \/ ParseOpen
    \/ ScanSegment
    \/ HandleApp1
    \/ Ifd0Entry
    \/ GpsBegin
    \/ GpsEntry
    \/ GpsFinish
    \/ MainMatch
    \/ MainFinish

Spec == Init /\ [][Next]_vars

\* The program run on one file of InputsFile.  It is one thread that runs
\* until main returns or the process panics.
InitScan ==
    /\ Init
    /\ args \in {<<d>> : d \in InputsFile}

FairSpec == InitScan /\ [][Next]_vars /\ WF_vars(Next)

----------------------------------------------------------------------------
(* print_xml applied to collected waypoints of any order.                  *)

\* Number of waypoints of the longest list.
MaxTrack == 3

XmlPoints ==
    {[lat |-> la, lon |-> 0, time |-> t] : la \in {0, 3, 6}, t \in {1, 2}}
    \cup {[lat |-> 3, lon |-> 4, time |-> 2],
          [lat |-> 5, lon |-> 0, time |-> 1],
          [lat |-> 12, lon |-> 0, time |-> 2],
          [lat |-> 12, lon |-> 0, time |-> U64_MAX]}

XmlLists == UNION {SeqsOfLen(XmlPoints, n) : n \in 1..MaxTrack}

InitXml ==
    /\ args = <<>>
    /\ checked \in BOOLEAN
    /\ idx = 0
    /\ pc = "xml"
    /\ f = NoFile
    /\ buf = BufReader_new
    /\ len = 0
    /\ num_entries = 0
    /\ gps = GpsIdle
    /\ result = NoResult
    /\ waypoints \in XmlLists
    /\ track = <<>>
    /\ stamp = NoStamp

XmlPrint ==
    /\ pc = "xml"
    /\ track' = print_xml(waypoints)
    /\ pc' = "xml_done"
    /\ UNCHANGED <<args, checked, idx, f, buf, len, num_entries, gps, result,
                   waypoints, stamp>>

NextXml == XmlPrint

SpecXml == InitXml /\ [][NextXml]_vars

----------------------------------------------------------------------------
(* The composite time: process_datestamp and process_timestamp applied to  *)
(* a date string and a rational triple, in either order, then print_time.  *)

\* The largest year of the dates.
MaxYear == 2

TimeInputs ==
    [year : 0..MaxYear, month : 1..12, day : 1..31,
     hour : {0, 1, 23}, min : {0, 59}, sec : {0, 1, 59}]

\* The date string is at offset 0, the rational triple behind it and its NUL.
TimeClockOffset == DATE_SIZE + 1

TimeBuffer(t) ==
    DateBytes(t.year, t.month, t.day) \o <<0>>
    \o RationalBytes(Whole(t.hour, t.min, t.sec))

InitTime ==
    /\ \E t \in TimeInputs :
        /\ args = <<t>>
        /\ buf = [BufReader_new EXCEPT !.buffer = TimeBuffer(t)]
    /\ checked = TRUE   \* no sum of these inputs overflows in either build
    /\ idx = 0
    /\ pc = "time"
    /\ f = NoFile
    /\ len = 0
    /\ num_entries = 0
    /\ gps = GpsIdle
    /\ result = NoResult
    /\ waypoints = <<>>
    /\ track = <<>>
    /\ stamp = NoStamp

TimeDate ==
    /\ pc \in {"time", "time_clocked"}
    /\ LET r == process_datestamp(gps.waypoint, buf, 0)
       IN  /\ buf' = r.buf
           /\ gps' = [gps EXCEPT !.waypoint = r.wp]
           /\ IF r.err # "" THEN Fails(r.err)
              ELSE /\ pc' = IF pc = "time" THEN "time_dated" ELSE "time_both"
                   /\ UNCHANGED result
    /\ UNCHANGED <<args, checked, idx, f, len, num_entries, waypoints, track, stamp>>

TimeClock ==
    /\ pc \in {"time", "time_dated"}
    /\ LET r == process_timestamp(gps.waypoint, buf, TimeClockOffset)
       IN  /\ buf' = r.buf
           /\ gps' = [gps EXCEPT !.waypoint = r.wp]
           /\ IF r.err # "" THEN Fails(r.err)
              ELSE /\ pc' = IF pc = "time" THEN "time_clocked" ELSE "time_both"
                   /\ UNCHANGED result
    /\ UNCHANGED <<args, checked, idx, f, len, num_entries, waypoints, track, stamp>>

TimePrint ==
    /\ pc = "time_both"
    /\ stamp' = print_time(gps.waypoint.time)
    /\ pc' = "time_printed"
    /\ UNCHANGED <<args, checked, idx, f, buf, len, num_entries, gps, result,
                   waypoints, track>>

NextTime == TimeDate \/ TimeClock \/ TimePrint

SpecTime == InitTime /\ [][NextTime]_vars

----------------------------------------------------------------------------
(* Claims about print_xml (SpecXml).                                       *)

PermutationsOf(n) == {p \in [1..n -> 1..n] : \A i, j \in 1..n : p[i] = p[j] => i = j}

\* The arrangement of w in nondecreasing time order in which elements of
\* equal time keep their order of insertion.
StableSorted(w) ==
    LET n == Len(w)
        p == CHOOSE q \in PermutationsOf(n) :
                \A i, j \in 1..n : i < j =>
                    \/ LessU64(w[q[i]].time, w[q[j]].time)
                    \/ (w[q[i]].time = w[q[j]].time /\ q[i] < q[j])
    IN  [i \in 1..n |-> w[p[i]]]

RECURSIVE IsSubsequence(_, _)
IsSubsequence(a, b) ==
    IF a = <<>> THEN TRUE
    ELSE IF b = <<>> THEN FALSE
    ELSE IF a[1] = b[1] THEN IsSubsequence(Tail(a), Tail(b))
    ELSE IsSubsequence(a, Tail(b))

\* C1: the track print_xml emits is in nondecreasing composite-time order,
\* is a subsequence of the stably time-sorted waypoints (so waypoints of
\* equal time keep their insertion order), and starts with the first
\* waypoint of the sorted list.
C1_TrackSorted ==
    pc = "xml_done" =>
        /\ track # <<>>
        /\ track[1] = StableSorted(waypoints)[1]
        /\ IsSubsequence(track, StableSorted(waypoints))
        /\ \A i, j \in 1..Len(track) : i < j => ~LessU64(track[j].time, track[i].time)

\* Three waypoints, all kept: the earliest was collected last, the other
\* two have the same time and keep their order.
C1_Witness ==
    /\ pc = "xml_done"
    /\ Len(waypoints) = 3
    /\ LessU64(waypoints[3].time, waypoints[1].time)
    /\ waypoints[1].time = waypoints[2].time
    /\ waypoints[1] # waypoints[2]
    /\ track = <<waypoints[3], waypoints[1], waypoints[2]>>

\* The elements of s at the indices in K, in order.
RECURSIVE Restrict(_, _, _)
Restrict(s, K, i) ==
    IF i > Len(s) THEN <<>>
    ELSE (IF i \in K THEN <<s[i]>> ELSE <<>>) \o Restrict(s, K, i + 1)

\* C2 (as amended): every waypoint after the first of the sorted list is
\* compared with the one just before it in the sorted list, kept or not: it
\* is dropped when distance_from gives at most 5 metres and kept otherwise.
C2_ComparedWithSortedPredecessor ==
    pc = "xml_done" =>
        LET s == StableSorted(waypoints)
            K == {1} \cup {i \in 2..Len(s) :
                            distance_from(s[i], s[i - 1]) > DISTANCE_DIFF}
        IN  track = Restrict(s, K, 1)

\* The last waypoint is within 5 m of a dropped one and more than 5 m from
\* the last kept one, and is dropped.
C2_Witness ==
    /\ pc = "xml_done"
    /\ Len(waypoints) = 3
    /\ LET s == StableSorted(waypoints)
       IN  /\ track = <<s[1]>>
           /\ distance_from(s[2], s[1]) <= DISTANCE_DIFF
           /\ distance_from(s[3], s[2]) <= DISTANCE_DIFF
           /\ distance_from(s[3], s[1]) > DISTANCE_DIFF

\* The filter that compares with the last kept waypoint.
RECURSIVE KeptPolicy(_, _, _)
KeptPolicy(s, i, kept) ==
    IF i > Len(s) THEN kept
    ELSE KeptPolicy(s, i + 1,
                    IF distance_from(s[i], kept[Len(kept)]) > DISTANCE_DIFF
                    THEN Append(kept, s[i]) ELSE kept)

\* C2 (as claimed): every waypoint after the first is compared with the
\* immediately preceding kept waypoint.
C2_ComparedWithKept ==
    pc = "xml_done" =>
        LET s == StableSorted(waypoints) IN track = KeptPolicy(s, 2, <<s[1]>>)

----------------------------------------------------------------------------
(* Claims about the composite time (SpecTime).                             *)

\* C7: a date and a time of day within the calendar ranges, encoded by
\* process_datestamp and process_timestamp and decoded by print_time, give
\* back the same year, month, day, hour, minute and second.
C7_RoundTrip ==
    /\ pc \notin {"match", "aborted"}
    /\ pc = "time_printed" => stamp = args[1]

\* The last second of the last year has been decoded.
C7_Witness ==
    /\ pc = "time_printed"
    /\ stamp = [year |-> MaxYear, month |-> 12, day |-> 31,
                hour |-> 23, min |-> 59, sec |-> 59]
    /\ gps.waypoint.time = (MaxYear + 1) * 31 * 12 * 24 * 60 * 60 - 1

----------------------------------------------------------------------------
(* Claims about decoding a file (Spec).                                    *)

\* The description of the file being decoded.
Cur == args[idx]

Essential == {LAT_Q, LAT_V, LONG_Q, LONG_V, TIMESTAMP, DATESTAMP}

TagsOf(d) == {d.gps[i].tag : i \in 1..Len(d.gps)}

RecognizedCount(d) == Cardinality({i \in 1..Len(d.gps) : d.gps[i].tag \in Essential})

IndexOf(d, tag) == CHOOSE i \in 1..Len(d.gps) : d.gps[i].tag = tag

\* process_gps_section was entered for the current file and has returned
\* or panicked.
GpsReturned == idx >= 1 /\ gps.entered /\ pc \in {"match", "aborted"}

\* C3 (as amended): process_gps_section returns a waypoint only when every
\* entry of the GPS IFD was decoded and exactly six entries carry one of
\* the six recognized tags, a repeated tag counting once per entry; when
\* every entry was decoded and that count is not six, it returns the
\* non-fatal failure Other and no waypoint.
C3_SixRecognizedEntries ==
    GpsReturned =>
        /\ result.kind = "Ok" =>
              (gps.i = Len(Cur.gps) /\ RecognizedCount(Cur) = NUM_ESSENTIAL_ENTRIES)
        /\ (gps.i = Len(Cur.gps) /\ RecognizedCount(Cur) # NUM_ESSENTIAL_ENTRIES) =>
              (pc = "match" /\ result = Err("Other"))

\* A GPS IFD without a datestamp, one other tag being repeated, has given a
\* waypoint.
C3_Witness ==
    /\ GpsReturned
    /\ result.kind = "Ok"
    /\ DATESTAMP \notin TagsOf(Cur)
    /\ RecognizedCount(Cur) = NUM_ESSENTIAL_ENTRIES

\* C3 (as claimed): a waypoint is returned only when each of the six tags
\* is present, and a GPS IFD lacking one of them gives the non-fatal
\* failure, never a crash.
C3_AllSixTagsPresent ==
    GpsReturned =>
        /\ result.kind = "Ok" => Essential \subseteq TagsOf(Cur)
        /\ ~(Essential \subseteq TagsOf(Cur)) => (pc = "match" /\ result = Err("Other"))

AllFinite(t) == \A i \in 1..3 : t[i][2] # 0

ValueE5(t) == DegreesE5([i \in 1..3 |-> Fin(t[i][1], t[i][2])])

SixOnce(d) == Len(d.gps) = 6 /\ TagsOf(d) = Essential

\* C9: for a GPS IFD holding the six essential tags once each, in any
\* order, the decoded latitude is the value of the latitude triple, negated
\* exactly when the latitude quadrant is S, and the decoded longitude is
\* the value of the longitude triple, negated exactly when the longitude
\* quadrant is W; a well-formed file decodes in every order.
C9_SignAppliedOnce ==
    /\ (GpsReturned /\ Cur \in InputsOrder) => result.kind = "Ok"
    /\ (GpsReturned /\ result.kind = "Ok" /\ SixOnce(Cur)
            /\ AllFinite(Cur.lat) /\ AllFinite(Cur.lon)) =>
          /\ result.wp.lat =
                (IF Cur.gps[IndexOf(Cur, LAT_Q)].val = CHAR_S THEN -1 ELSE 1)
                * ValueE5(Cur.lat)
          /\ result.wp.lon =
                (IF Cur.gps[IndexOf(Cur, LONG_Q)].val = CHAR_W THEN -1 ELSE 1)
                * ValueE5(Cur.lon)

\* 1 degree 30 minutes with quadrant S, the value entry coming before the
\* quadrant entry: -1.5 degrees; 2 degrees with quadrant W, the quadrant
\* entry coming first: -2 degrees.
C9_Witness ==
    /\ GpsReturned
    /\ result.kind = "Ok"
    /\ SixOnce(Cur)
    /\ Cur.lat = Whole(1, 30, 0)
    /\ Cur.gps[IndexOf(Cur, LAT_Q)].val = CHAR_S
    /\ IndexOf(Cur, LAT_V) < IndexOf(Cur, LAT_Q)
    /\ Cur.gps[IndexOf(Cur, LONG_Q)].val = CHAR_W
    /\ IndexOf(Cur, LONG_Q) < IndexOf(Cur, LONG_V)
    /\ result.wp.lat = -150000
    /\ result.wp.lon = -200000

\* The file reaches the entry loop of process_gps_section: it holds an APP1
\* segment of the declared length with a valid TIFF header and a GPS entry
\* that points at the GPS IFD.
HasApp1(d) == d.shape \in {"app1", "app0_app1"}

ValidHeader(d) == d.tiff = TIFF_LE /\ d.ifd_off = FIRST_IFD

HasGpsEntry(d) == \E i \in 1..Len(d.ifd0) : d.ifd0[i].tag = GPS

ReachesGps(d) ==
    /\ HasApp1(d)
    /\ ValidHeader(d)
    /\ \E i \in 1..Len(d.ifd0) : d.ifd0[i].tag = GPS /\ d.ifd0[i].ref = "gps"

BadQuadrant(d) ==
    \E i \in 1..Len(d.gps) :
        \/ d.gps[i].tag = LAT_Q /\ d.gps[i].val \notin {Ascii.N, Ascii.S}
        \/ d.gps[i].tag = LONG_Q /\ d.gps[i].val \notin {Ascii.E, Ascii.W}

BadDate(d) ==
    /\ DATESTAMP \in TagsOf(d)
    /\ \E i \in {1, 2, 3, 4, 6, 7, 9, 10} : ~IsDigit(d.date[i])

\* The per-file conditions of the error design.
PerFileCondition(d) ==
    \/ d.shape \in {"empty", "notjpeg"}
    \/ d.shape \in {"soi_sos", "app0_sos"}
    \/ HasApp1(d) /\ ~ValidHeader(d)
    \/ HasApp1(d) /\ ValidHeader(d) /\ ~HasGpsEntry(d)
    \/ ReachesGps(d) /\ ~(Essential \subseteq TagsOf(d))
    \/ ReachesGps(d) /\ BadQuadrant(d)
    \/ ReachesGps(d) /\ BadDate(d)

\* C4: a file that meets one of the per-file conditions ends in the
\* non-fatal failure Other: parse_file returns Err of kind Other, so the
\* file adds no waypoint, and main neither returns an error nor panics but
\* goes on with the next file.
C4_PerFileFailureIsOther ==
    (idx >= 1 /\ PerFileCondition(Cur)) =>
        /\ pc # "aborted"
        /\ pc = "match" => result = Err("Other")

\* What the next turn of the marker loop reads: a tag that is not SOS and
\* a length, both inside the file.
NextTag == read_tag(f).val

NextLength == read_tag(read_tag(f).f).val

ShortSegment ==
    /\ pc = "scan"
    /\ f.pos + 4 <= Len(f.bytes)
    /\ NextTag # SOS
    /\ NextLength < 2

ShortApp1 == pc = "app1" /\ len < ADVANCE

FatalError ==
    pc = "match" /\ result.kind \in {"UnexpectedEof", "InvalidData", "InvalidInput"}

\* C5: when the declared length of a segment is below 2, or the length of
\* the APP1 payload is below ADVANCE, the step that subtracts from it
\* returns a fatal error to the caller; it neither panics nor goes on with
\* a wrapped length.
C5_UnderflowIsFatalError ==
    [][(ShortSegment \/ ShortApp1) => FatalError']_vars

ZeroDenominator(d) ==
    \E i \in 1..Len(d.gps) :
        \/ d.gps[i].tag = LAT_V /\ ~AllFinite(d.lat)
        \/ d.gps[i].tag = LONG_V /\ ~AllFinite(d.lon)
        \/ d.gps[i].tag = TIMESTAMP /\ ~AllFinite(d.time)

SoundFiles(n) == {k \in 1..n : ~(ReachesGps(args[k]) /\ ZeroDenominator(args[k]))}

\* C6: a file whose latitude, longitude or timestamp triple has a zero
\* denominator gives no waypoint: parse_file does not return Ok for it, and
\* the waypoints collected and the track written hold at most one waypoint
\* per file without a zero denominator.
C6_ZeroDenominatorRejected ==
    /\ (idx >= 1 /\ ReachesGps(Cur) /\ ZeroDenominator(Cur) /\ pc = "match") =>
          result.kind # "Ok"
    /\ Len(waypoints) <= Cardinality(SoundFiles(idx))
    /\ Len(track) <= Cardinality(SoundFiles(idx))

\* C8: floats_from_rational and process_datestamp leave the stack of saved
\* positions as deep as they found it on every return, also when the seek
\* or the read fails: between the steps of the program the stack is empty.
C8_CursorRestored == Len(buf.cursor_stack) = 0

\* C10: the marker scan of parse_file ends for every file: it reaches
\* handle_app1 or returns to main, also when read_tag gets no bytes at the
\* end of the file.
C10_ScanTerminates == (pc = "scan") ~> (pc \in {"app1", "match"})

====
